---- MODULE Spec2Model ----
(***************************************************************************)
(* A model of luigi/contrib/esindex.py: ElasticsearchTarget (the marker    *)
(* documents of the tracking index: touch, exists, create_marker_index,    *)
(* ensure_hist_size) and CopyToIndex (run and its helpers), against an     *)
(* Elasticsearch backend whose calls are atomic one by one.                *)
(*                                                                         *)
(* Every backend call of the source is one action, so that a call can fail *)
(* between two others.  Strings are TLA+ strings, '%s:%s:%s' is string     *)
(* concatenation and sha1 is a collision-free tag on its input.            *)
(* datetime.now() is a clock that is strictly larger at every call.        *)
(*                                                                         *)
(* Spec: one caller at a time issues exists(), touch() and run() in any    *)
(* order, and any backend call may fail.  SpecHist: touch() after touch()  *)
(* of fresh update ids with a positive marker_index_hist_size.  SpecId:    *)
(* marker_index_document_id() on bounded strings.  SpecDocs: _docs() on    *)
(* bounded sources.                                                        *)
(***************************************************************************)
EXTENDS Integers, Sequences, FiniteSets, TLC

(* ------------------------------ universe ------------------------------ *)

\* The (index, doc_type, update_id) keys the operations draw from.
TargetKeys == {<<"a", "t", "1">>, <<"a", "t", "u:1">>, <<"a", "t:u", "1">>}

\* The processes that call into the module.
Procs == {"p1", "p2"}

\* Largest marker_index_hist_size drawn and number of datetime.now() calls
\* in one behaviour.
MaxHist == 2
MaxClock == 3

\* The behaviours that only call run(): the longest source, the largest
\* chunk_size and the number of datetime.now() calls.
MaxSource == 3
MaxChunk == 2
MaxRunClock == 2

\* The number of touch() calls before two concurrent callers start.
MaxPrior == 2

\* The same for the behaviours that only touch() fresh update ids.
MaxPruneHist == 11
MaxPruneClock == 12

\* The longest index, doc_type and update_id of the behaviours that compute
\* marker ids, and the longest source of those that normalise documents.
MaxStrLen == 2
MaxDocs == 2

\* Elasticsearch returns this many hits when a search names no size.
DefaultSearchSize == 10

None == "None"

(* --------------------------- pure functions --------------------------- *)

\* hashlib.sha1(params).hexdigest(): collision-free on its input.
sha1(params) == <<"sha1", params>>

\* '%s:%s:%s' % (self.index, self.doc_type, self.update_id), hashed.
marker_index_document_id(index, doc_type, update_id) ==
    sha1(index \o ":" \o doc_type \o ":" \o update_id)

Key(t) == <<t.index, t.doc_type, t.update_id>>
KeyId(k) == marker_index_document_id(k[1], k[2], k[3])
DocId(t) == KeyId(Key(t))

\* The body touch() indexes, stored with its _id.
MarkerDoc(t, now) ==
    [_id |-> DocId(t), update_id |-> t.update_id, target_index |-> t.index,
     target_doc_type |-> t.doc_type, date |-> now]

(* ------------------------- the backend's calls ------------------------ *)

\* es.index(id=..., body=...): the document with that _id is replaced.
es_index_append(store, doc) == store \cup {doc}

es_index(store, doc) == {m \in store : m._id # doc._id} \cup {doc}

\* es.get(id=...): whether the lookup finds a document.
es_get(store, id) == \E m \in store : m._id = id

\* A delete that empties the doc type.
es_delete_all(store, id) == {}

es_delete(store, id) == {m \in store : m._id # id}

RECURSIVE SortDateDesc(_)
SortDateDesc(S) ==
    IF S = {} THEN <<>>
    ELSE LET m == CHOOSE x \in S : \A y \in S : y.date <= x.date
         IN  <<m>> \o SortDateDesc(S \ {m})

Take(s, n) == SubSeq(s, 1, IF Len(s) < n THEN Len(s) ELSE n)
Drop(s, n) == SubSeq(s, n + 1, Len(s))

\* es.search(body={'query': {'term': {'target_index': index}}},
\*           sort=('date:desc',)): the first page of the matching markers.
es_search(store, index) ==
    Take(SortDateDesc({m \in store : m.target_index = index}), DefaultSearchSize)

\* for i, hit in enumerate(hits, start=1): if i > marker_index_hist_size:
\* the hits the loop deletes, in order.
HitsToDelete(hitseq, hist_size) == Drop(hitseq, hist_size)

(* ------------------------- document normalisation --------------------- *)

\* A document of docs(): a dict, a string (the text of a JSON object with
\* its members in order, of another JSON value, or of no JSON at all), or
\* a value that is neither.
Dict(fields) == [kind |-> "dict", fields |-> fields, syntax |-> None, members |-> <<>>]
Str(syntax, members) == [kind |-> "str", fields |-> <<>>, syntax |-> syntax, members |-> members]
Other == [kind |-> "other", fields |-> <<>>, syntax |-> None, members |-> <<>>]

\* json.loads of the text of an object: a later member overrides an
\* earlier one of the same name.
json_loads(members) ==
    LET names == {members[i][1] : i \in 1 .. Len(members)}
        last(n) == CHOOSE i \in 1 .. Len(members) :
                       /\ members[i][1] = n
                       /\ \A j \in 1 .. Len(members) : members[j][1] = n => j <= i
    IN  [n \in names |-> members[last(n)][2]]

\* key in doc: a key of a dict, a substring of a string.
Contains(doc, key) ==
    IF doc.kind = "dict" THEN key \in DOMAIN doc.fields
    ELSE \E i \in 1 .. Len(doc.members) : doc.members[i][1] = key

\* doc[key] = value, when the key is not in doc.
SetDefault(fields, key, value) ==
    IF key \in DOMAIN fields THEN fields
    ELSE [n \in DOMAIN fields \cup {key} |-> IF n = key THEN value ELSE fields[n]]

\* The variant that always assigns.
SetAlways(fields, key, value) ==
    [n \in DOMAIN fields \cup {key} |-> IF n = key THEN value ELSE fields[n]]

\* The body of the loop of _docs for one document: what is yielded, or the
\* exception raised.
docs_step_overwrite(doc, needs_parsing, index, doc_type) ==
    [err |-> None,
     doc |-> Dict(SetAlways(SetAlways(
                 IF needs_parsing THEN json_loads(doc.members) ELSE doc.fields,
                 "_index", index), "_type", doc_type))]

docs_step(doc, needs_parsing, index, doc_type) ==
    IF needs_parsing
    THEN IF doc.kind # "str" THEN [err |-> "TypeError", doc |-> None]
         ELSE IF doc.syntax = "invalid" THEN [err |-> "ValueError", doc |-> None]
         ELSE IF doc.syntax # "object" THEN [err |-> "TypeError", doc |-> None]
         ELSE [err |-> None,
               doc |-> Dict(SetDefault(SetDefault(json_loads(doc.members),
                                                  "_index", index),
                                       "_type", doc_type))]
    ELSE IF doc.kind = "dict"
         THEN [err |-> None,
               doc |-> Dict(SetDefault(SetDefault(doc.fields, "_index", index),
                                       "_type", doc_type))]
         ELSE IF doc.kind = "str" /\ Contains(doc, "_index") /\ Contains(doc, "_type")
         THEN [err |-> None, doc |-> doc]
         ELSE [err |-> "TypeError", doc |-> None]

RECURSIVE docs_loop(_, _, _, _)
docs_loop(source, needs_parsing, index, doc_type) ==
    IF source = <<>> THEN [out |-> <<>>, err |-> None]
    ELSE LET r == docs_step(Head(source), needs_parsing, index, doc_type)
         IN  IF r.err # None THEN [out |-> <<>>, err |-> r.err]
             ELSE LET rest == docs_loop(Tail(source), needs_parsing, index, doc_type)
                  IN  [out |-> <<r.doc>> \o rest.out, err |-> rest.err]

\* A _docs() that raises on an empty source.
docs_normalized_empty_raises(source, restartable, index, doc_type) ==
    IF source = <<>> THEN [out |-> <<>>, err |-> "StopIteration"]
    ELSE IF Head(source).kind = "other" THEN [out |-> <<>>, err |-> "RuntimeError"]
    ELSE docs_loop(IF restartable THEN source ELSE Tail(source),
                   Head(source).kind = "str", index, doc_type)

\* _docs(): the documents it yields before it ends, and the exception that
\* ends it (None: it ends normally).  docs() is called twice: a source that
\* is not restartable has lost its first document to the first call.
docs_normalized(source, restartable, index, doc_type) ==
    IF source = <<>> THEN [out |-> <<>>, err |-> None]
    ELSE IF Head(source).kind = "other" THEN [out |-> <<>>, err |-> "RuntimeError"]
    ELSE docs_loop(IF restartable THEN source ELSE Tail(source),
                   Head(source).kind = "str", index, doc_type)

(* ------------------------------- state -------------------------------- *)

VARIABLES
    markerIndexExists,  \* es.indices.exists(index=marker_index)
    markers,            \* the documents of marker_index / marker_doc_type
    clock,              \* the last value datetime.now() returned
    tindex,             \* the target indices: existence, settings, documents
    autoId,             \* ids the backend has generated for documents without _id
    pc,                 \* where each process is in its operation
    target,             \* the ElasticsearchTarget of the operation
    task,               \* the CopyToIndex attributes of a run()
    hits,               \* ensure_hist_size: the hits still to delete
    queue,              \* run: what _docs() has still to yield
    log,                \* the backend calls the operation has issued
    ret,                \* how the process's last operation ended
    active,             \* the processes that run in this behaviour
    config,             \* the attributes of the CopyToIndex class in use
    horizon,            \* the behaviour ends when the clock reaches it
    written,            \* keys whose marker a touch() has indexed
    pruned,             \* marker ids ensure_hist_size has deleted since their last write
    pureIn,             \* SpecId: the two keys whose marker ids are computed
    pureOut             \* SpecId: their ids; SpecDocs: what _docs() yields

backendVars == <<markerIndexExists, markers, clock, tindex, autoId>>
procVars == <<pc, target, task, hits, queue, log, ret>>
envVars == <<active, config, horizon, pureIn, pureOut>>
ghostVars == <<written, pruned>>
vars == <<backendVars, procVars, ghostVars, envVars>>

\* ElasticsearchTarget(host, port, index, doc_type, update_id,
\*                     marker_index_hist_size)
ElasticsearchTarget(k, hist_size) ==
    [index |-> k[1], doc_type |-> k[2], update_id |-> k[3],
     marker_index_hist_size |-> hist_size]

Targets == {ElasticsearchTarget(k, h) : k \in TargetKeys, h \in 0 .. MaxHist}

IndexNames == {k[1] : k \in TargetKeys}

\* An index that does not exist, and one just created.
Absent ==
    [exists |-> FALSE, settings |-> None, mapping |-> <<>>,
     refresh_interval |-> None, docs |-> {}]
Created(settings) ==
    [exists |-> TRUE, settings |-> settings, mapping |-> <<>>,
     refresh_interval |-> "default", docs |-> {}]

\* The documents of the runs: dicts with an _id and neither _index nor _type.
SourceDoc(n) == Dict([_id |-> n, title |-> "x"])

\* The CopyToIndex attributes a run() is started with.
CopyToIndex(purge, mapping, raise_on_error, chunk_size, source, hist_size) ==
    [purge_existing_index |-> purge, mapping |-> mapping,
     marker_index_hist_size |-> hist_size,
     settings |-> "settings", raise_on_error |-> raise_on_error,
     chunk_size |-> chunk_size, source |-> source, restartable |-> TRUE]

Tasks ==
    {CopyToIndex(FALSE, None, TRUE, 2, <<SourceDoc("1"), SourceDoc("2"), SourceDoc("3")>>, h)
        : h \in 0 .. MaxHist}
    \cup {CopyToIndex(TRUE, "mapping", TRUE, 1, <<SourceDoc("1")>>, h) : h \in 0 .. MaxHist}
    \cup {CopyToIndex(FALSE, None, FALSE, 2, <<SourceDoc("1"), SourceDoc("2")>>, h)
              : h \in 0 .. MaxHist}
    \cup {CopyToIndex(FALSE, "mapping", TRUE, 2, <<>>, h) : h \in 0 .. MaxHist}

NoTarget == [none |-> TRUE]
NoTask == [none |-> TRUE]
NoRet ==
    [op |-> None, key |-> <<>>, outcome |-> None, at |-> None, lookup |-> None,
     value |-> None]
NoQueue == [out |-> <<>>, err |-> None]

\* No operation is in progress or has ended.
InitIdle ==
    /\ pc = [p \in Procs |-> "idle"]
    /\ target = [p \in Procs |-> NoTarget]
    /\ task = [p \in Procs |-> NoTask]
    /\ hits = [p \in Procs |-> <<>>]
    /\ queue = [p \in Procs |-> NoQueue]
    /\ log = [p \in Procs |-> <<>>]
    /\ ret = [p \in Procs |-> NoRet]

\* No marker exists and no operation has been called.
InitState ==
    /\ markerIndexExists = FALSE
    /\ markers = {}
    /\ clock = 0
    /\ autoId = 0
    /\ InitIdle
    /\ written = {}
    /\ pruned = {}

Init ==
    /\ InitState
    /\ tindex = [i \in IndexNames |-> Absent]
    /\ active = {"p1"}
    /\ config \in Tasks
    /\ horizon = MaxClock
    /\ pureIn = <<>>
    /\ pureOut = <<>>

(* ------------------------------ helpers ------------------------------- *)

Call(p, name) == log' = [log EXCEPT ![p] = Append(@, name)]

\* The operation of p goes on at label.
Continue(p, label) ==
    /\ pc' = [pc EXCEPT ![p] = label]
    /\ UNCHANGED <<target, task, ret>>

OpOf(p) == IF task[p] = NoTask THEN "touch" ELSE "run"

\* The operation of p ends: it returns, or its exception propagates.
Finish(p, outcome) ==
    /\ pc' = [pc EXCEPT ![p] = "idle"]
    /\ ret' = [ret EXCEPT ![p] =
                  [op |-> OpOf(p), key |-> Key(target[p]), outcome |-> outcome,
                   at |-> pc[p], lookup |-> None, value |-> None]]
    /\ target' = [target EXCEPT ![p] = NoTarget]
    /\ task' = [task EXCEPT ![p] = NoTask]
    /\ hits' = [hits EXCEPT ![p] = <<>>]
    /\ queue' = [queue EXCEPT ![p] = NoQueue]

(* ------------------------ ElasticsearchTarget ------------------------- *)

\* What exists() returns, from how its es.get ends: True if the document is
\* found, False on NotFoundError and on any other ElasticsearchException.
exists_result_true_on_error(lookup, found) ==
    IF lookup = "error" THEN TRUE ELSE found

exists_result(lookup, found) ==
    IF lookup = "error" THEN FALSE ELSE found

\* exists(): one es.get by the marker's document id.
exists(p, k, lookup) ==
    /\ pc[p] = "idle" /\ p \in active
    /\ log' = [log EXCEPT ![p] = <<"get">>]
    /\ ret' = [ret EXCEPT ![p] =
                  [op |-> "exists", key |-> k, outcome |-> "returned",
                   at |-> "exists", lookup |-> lookup,
                   value |-> exists_result(lookup,
                                 markerIndexExists /\ es_get(markers, KeyId(k)))]]
    /\ UNCHANGED <<backendVars, pc, target, task, hits, queue, envVars, ghostVars>>

\* touch() is called on a target.
touch(p, t) ==
    /\ pc[p] = "idle" /\ p \in active /\ clock < horizon
    /\ target' = [target EXCEPT ![p] = t]
    /\ log' = [log EXCEPT ![p] = <<"touch">>]
    /\ ret' = [ret EXCEPT ![p] = NoRet]
    /\ pc' = [pc EXCEPT ![p] = "create_marker_index"]
    /\ UNCHANGED <<backendVars, task, hits, queue, envVars, ghostVars>>

\* create_marker_index(): if not self.es.indices.exists(index=marker_index)
create_marker_index(p) ==
    /\ pc[p] = "create_marker_index"
    /\ Call(p, "create_marker_index.exists")
    /\ Continue(p, IF markerIndexExists THEN "touch.index"
                   ELSE "create_marker_index.create")
    /\ UNCHANGED <<backendVars, hits, queue, envVars, ghostVars>>

\* self.es.indices.create(index=marker_index): fails on an existing index.
create_marker_index_create(p) ==
    /\ pc[p] = "create_marker_index.create"
    /\ Call(p, "create_marker_index.create")
    /\ IF markerIndexExists
       THEN /\ Finish(p, "raised")
            /\ UNCHANGED markerIndexExists
       ELSE /\ markerIndexExists' = TRUE
            /\ Continue(p, "touch.index")
            /\ UNCHANGED <<hits, queue>>
    /\ UNCHANGED <<markers, clock, tindex, autoId, envVars, ghostVars>>

\* self.es.index(..., id=marker_index_document_id(), body={..., 'date': now})
touch_index(p) ==
    /\ pc[p] = "touch.index"
    /\ Call(p, "index")
    /\ clock' = clock + 1
    /\ markers' = es_index(markers, MarkerDoc(target[p], clock + 1))
    /\ written' = written \cup {Key(target[p])}
    /\ pruned' = pruned \ {DocId(target[p])}
    /\ Continue(p, "touch.flush")
    /\ UNCHANGED <<markerIndexExists, tindex, autoId, hits, queue, envVars>>

\* ensure_hist_size() without its early return.
touch_flush_always_prunes(p) ==
    /\ pc[p] = "touch.flush"
    /\ Call(p, "flush")
    /\ Continue(p, "ensure_hist_size.search")
    /\ UNCHANGED <<hits, queue>>
    /\ UNCHANGED <<backendVars, envVars, ghostVars>>

\* self.es.indices.flush(index=marker_index), then ensure_hist_size() up to
\* its first backend call: it returns at once when the size is 0.
touch_flush(p) ==
    /\ pc[p] = "touch.flush"
    /\ Call(p, "flush")
    /\ IF target[p].marker_index_hist_size = 0
       THEN Finish(p, "returned")
       ELSE /\ Continue(p, "ensure_hist_size.search")
            /\ UNCHANGED <<hits, queue>>
    /\ UNCHANGED <<backendVars, envVars, ghostVars>>

\* ensure_hist_size(): result = self.es.search(...), and the enumeration up
\* to the first hit beyond marker_index_hist_size.
ensure_hist_size_search(p) ==
    /\ pc[p] = "ensure_hist_size.search"
    /\ Call(p, "search")
    /\ hits' = [hits EXCEPT ![p] =
                   HitsToDelete(es_search(markers, target[p].index),
                                target[p].marker_index_hist_size)]
    /\ Continue(p, "ensure_hist_size.delete")
    /\ UNCHANGED <<backendVars, queue, envVars, ghostVars>>

\* self.es.delete(id=hit.get('_id'), ...): NotFoundError if it is gone.
ensure_hist_size_delete(p) ==
    /\ pc[p] = "ensure_hist_size.delete" /\ hits[p] # <<>>
    /\ Call(p, "delete")
    /\ IF es_get(markers, Head(hits[p])._id)
       THEN /\ markers' = es_delete(markers, Head(hits[p])._id)
            /\ pruned' = pruned \cup {Head(hits[p])._id}
            /\ hits' = [hits EXCEPT ![p] = Tail(@)]
            /\ UNCHANGED <<pc, target, task, ret, queue>>
       ELSE /\ Finish(p, "raised")
            /\ UNCHANGED <<markers, pruned>>
    /\ UNCHANGED <<markerIndexExists, clock, tindex, autoId, envVars, written>>

\* The final self.es.indices.flush(index=marker_index); touch() returns.
ensure_hist_size_flush(p) ==
    /\ pc[p] = "ensure_hist_size.delete" /\ hits[p] = <<>>
    /\ Call(p, "ensure_hist_size.flush")
    /\ Finish(p, "returned")
    /\ UNCHANGED <<backendVars, envVars, ghostVars>>

(* ----------------------------- CopyToIndex ---------------------------- *)

MetaFields == {"_index", "_type", "_id"}

\* A backend that generates an id for every document.
bulk_store_fresh_id(ix, d, auto) ==
    LET f == d.fields
        doc == [_id |-> "auto" \o ToString(auto),
                _type |-> f._type,
                source |-> [n \in DOMAIN f \ MetaFields |-> f[n]]]
        old == IF ix[f._index].exists THEN ix[f._index] ELSE Created(None)
    IN  [ix EXCEPT ![f._index] = [old EXCEPT !.docs = @ \cup {doc}]]

\* One document of a bulk request is indexed: into its _index, under its
\* _type and _id (an id is generated when it has none), replacing the
\* document of that type and id.
bulk_store(ix, d, auto) ==
    LET f == d.fields
        doc == [_id |-> IF "_id" \in DOMAIN f THEN f._id ELSE "auto" \o ToString(auto),
                _type |-> f._type,
                source |-> [n \in DOMAIN f \ MetaFields |-> f[n]]]
        old == IF ix[f._index].exists THEN ix[f._index] ELSE Created(None)
    IN  [ix EXCEPT ![f._index] =
            [old EXCEPT !.docs = {x \in @ : ~(x._id = doc._id /\ x._type = doc._type)}
                                 \cup {doc}]]

NeedsId(chunk) == {i \in 1 .. Len(chunk) : "_id" \notin DOMAIN chunk[i].fields}

RECURSIVE es_bulk(_, _, _)
es_bulk(ix, chunk, auto) ==
    IF chunk = <<>> THEN ix
    ELSE es_bulk(bulk_store(ix, Head(chunk), auto), Tail(chunk),
                 IF "_id" \in DOMAIN Head(chunk).fields THEN auto ELSE auto + 1)

\* bulk_index pulls the next chunk_size documents from _docs(): the pull
\* raises when _docs() raises before the chunk is full, or yields a string.
PullRaises(q, chunk_size) ==
    \/ Len(q.out) < chunk_size /\ q.err # None
    \/ \E i \in 1 .. Len(Take(q.out, chunk_size)) : q.out[i].kind # "dict"

\* bulk_index goes on with what _docs() has left: the next request, the end
\* of the load, or the exception of the pull.
BulkNext(p, q) ==
    IF PullRaises(q, task[p].chunk_size)
    THEN Finish(p, "raised")
    ELSE /\ Continue(p, IF q.out = <<>> THEN "run.put_settings_on" ELSE "run.bulk")
         /\ queue' = [queue EXCEPT ![p] = q]
         /\ UNCHANGED hits

\* run() is called on a task of the class whose update_id() is k[3]:
\* output() is its target.
run(p, k) ==
    /\ pc[p] = "idle" /\ p \in active /\ clock < horizon
    /\ target' = [target EXCEPT ![p] =
                     ElasticsearchTarget(k, config.marker_index_hist_size)]
    /\ task' = [task EXCEPT ![p] = config]
    /\ log' = [log EXCEPT ![p] = <<"run">>]
    /\ ret' = [ret EXCEPT ![p] = NoRet]
    /\ pc' = [pc EXCEPT ![p] =
                 IF config.purge_existing_index THEN "delete_index"
                 ELSE "create_index"]
    /\ UNCHANGED <<backendVars, hits, queue, envVars, ghostVars>>

\* A delete_index() that finds no index to delete.
delete_index_never_deletes(p) ==
    /\ pc[p] = "delete_index"
    /\ Call(p, "delete_index.exists")
    /\ Continue(p, "create_index")
    /\ UNCHANGED <<backendVars, hits, queue, envVars, ghostVars>>

\* delete_index(): if es.indices.exists(index=self.index)
delete_index(p) ==
    /\ pc[p] = "delete_index"
    /\ Call(p, "delete_index.exists")
    /\ Continue(p, IF tindex[target[p].index].exists THEN "delete_index.delete"
                   ELSE "create_index")
    /\ UNCHANGED <<backendVars, hits, queue, envVars, ghostVars>>

\* es.indices.delete(index=self.index): fails on a missing index.
delete_index_delete(p) ==
    /\ pc[p] = "delete_index.delete"
    /\ Call(p, "delete_index.delete")
    /\ IF tindex[target[p].index].exists
       THEN /\ tindex' = [tindex EXCEPT ![target[p].index] = Absent]
            /\ Continue(p, "create_index")
            /\ UNCHANGED <<hits, queue>>
       ELSE /\ Finish(p, "raised")
            /\ UNCHANGED tindex
    /\ UNCHANGED <<markerIndexExists, markers, clock, autoId, envVars, ghostVars>>

\* Where run() goes on after create_index().
AfterCreateIndex(p) ==
    IF task[p].mapping # None THEN "run.put_mapping" ELSE "run.put_settings_off"

\* A create_index() without the check.
create_index_always_creates(p) ==
    /\ pc[p] = "create_index"
    /\ Continue(p, "create_index.create")
    /\ UNCHANGED <<backendVars, hits, queue, log, envVars, ghostVars>>

\* create_index(): if not es.indices.exists(index=self.index)
create_index(p) ==
    /\ pc[p] = "create_index"
    /\ Call(p, "create_index.exists")
    /\ Continue(p, IF tindex[target[p].index].exists THEN AfterCreateIndex(p)
                   ELSE "create_index.create")
    /\ UNCHANGED <<backendVars, hits, queue, envVars, ghostVars>>

\* es.indices.create(index=self.index, body=self.settings)
create_index_create(p) ==
    /\ pc[p] = "create_index.create"
    /\ Call(p, "create_index.create")
    /\ IF tindex[target[p].index].exists
       THEN /\ Finish(p, "raised")
            /\ UNCHANGED tindex
       ELSE /\ tindex' = [tindex EXCEPT ![target[p].index] = Created(task[p].settings)]
            /\ Continue(p, AfterCreateIndex(p))
            /\ UNCHANGED <<hits, queue>>
    /\ UNCHANGED <<markerIndexExists, markers, clock, autoId, envVars, ghostVars>>

\* es.indices.put_mapping(index=self.index, doc_type=self.doc_type, body=...)
run_put_mapping(p) ==
    /\ pc[p] = "run.put_mapping"
    /\ Call(p, "put_mapping")
    /\ IF tindex[target[p].index].exists
       THEN /\ tindex' = [tindex EXCEPT ![target[p].index].mapping =
                             <<target[p].doc_type, task[p].mapping>>]
            /\ Continue(p, "run.put_settings_off")
            /\ UNCHANGED <<hits, queue>>
       ELSE /\ Finish(p, "raised")
            /\ UNCHANGED tindex
    /\ UNCHANGED <<markerIndexExists, markers, clock, autoId, envVars, ghostVars>>

\* es.indices.put_settings({"index": {"refresh_interval": "-1"}}, ...), then
\* bulk_index(es, self._docs(), ...) up to its first request.
run_put_settings_off(p) ==
    /\ pc[p] = "run.put_settings_off"
    /\ Call(p, "put_settings:-1")
    /\ IF tindex[target[p].index].exists
       THEN /\ tindex' = [tindex EXCEPT ![target[p].index].refresh_interval = "-1"]
            /\ BulkNext(p, docs_normalized(task[p].source, task[p].restartable,
                                           target[p].index, target[p].doc_type))
       ELSE /\ Finish(p, "raised")
            /\ UNCHANGED tindex
    /\ UNCHANGED <<markerIndexExists, markers, clock, autoId, envVars, ghostVars>>

\* A bulk_index that submits full chunks only.
run_bulk_full_chunks_only(p, outcome) ==
    /\ pc[p] = "run.bulk"
    /\ LET chunk == Take(queue[p].out, task[p].chunk_size)
           full == Len(chunk) = task[p].chunk_size
           sent == IF ~full THEN <<>>
                   ELSE IF outcome = "doc_error" THEN Tail(chunk) ELSE chunk
       IN  /\ IF full THEN Call(p, "bulk:" \o ToString(Len(chunk)))
                      ELSE UNCHANGED log
           /\ tindex' = es_bulk(tindex, sent, autoId)
           /\ autoId' = autoId + Cardinality(NeedsId(sent))
           /\ IF outcome = "doc_error" /\ task[p].raise_on_error
              THEN Finish(p, "raised")
              ELSE BulkNext(p, [out |-> Drop(queue[p].out, task[p].chunk_size),
                                err |-> queue[p].err])
    /\ UNCHANGED <<markerIndexExists, markers, clock, envVars, ghostVars>>

\* A run() that restores the refresh interval when the bulk load raises.
run_bulk_restores_on_error(p, outcome) ==
    /\ pc[p] = "run.bulk"
    /\ LET chunk == Take(queue[p].out, task[p].chunk_size)
           sent == IF outcome = "doc_error" THEN Tail(chunk) ELSE chunk
           loaded == es_bulk(tindex, sent, autoId)
       IN  /\ Call(p, "bulk:" \o ToString(Len(chunk)))
           /\ autoId' = autoId + Cardinality(NeedsId(sent))
           /\ IF outcome = "doc_error" /\ task[p].raise_on_error
              THEN /\ tindex' = [loaded EXCEPT
                                    ![target[p].index].refresh_interval = "1s"]
                   /\ Finish(p, "raised")
              ELSE /\ tindex' = loaded
                   /\ BulkNext(p, [out |-> Drop(queue[p].out, task[p].chunk_size),
                                   err |-> queue[p].err])
    /\ UNCHANGED <<markerIndexExists, markers, clock, envVars, ghostVars>>

\* One bulk request of bulk_index: the next chunk_size documents.  With
\* "doc_error" the backend rejects the first document of the request, and
\* bulk_index raises if raise_on_error.
run_bulk(p, outcome) ==
    /\ pc[p] = "run.bulk"
    /\ LET chunk == Take(queue[p].out, task[p].chunk_size)
           sent == IF outcome = "doc_error" THEN Tail(chunk) ELSE chunk
       IN  /\ Call(p, "bulk:" \o ToString(Len(chunk)))
           /\ tindex' = es_bulk(tindex, sent, autoId)
           /\ autoId' = autoId + Cardinality(NeedsId(sent))
           /\ IF outcome = "doc_error" /\ task[p].raise_on_error
              THEN Finish(p, "raised")
              ELSE BulkNext(p, [out |-> Drop(queue[p].out, task[p].chunk_size),
                                err |-> queue[p].err])
    /\ UNCHANGED <<markerIndexExists, markers, clock, envVars, ghostVars>>

\* A run() that does not restore the refresh interval.
run_put_settings_on_missing(p) ==
    /\ pc[p] = "run.put_settings_on"
    /\ Continue(p, "run.refresh")
    /\ UNCHANGED <<backendVars, hits, queue, log, envVars, ghostVars>>

\* es.indices.put_settings({"index": {"refresh_interval": "1s"}}, ...)
run_put_settings_on(p) ==
    /\ pc[p] = "run.put_settings_on"
    /\ Call(p, "put_settings:1s")
    /\ IF tindex[target[p].index].exists
       THEN /\ tindex' = [tindex EXCEPT ![target[p].index].refresh_interval = "1s"]
            /\ Continue(p, "run.refresh")
            /\ UNCHANGED <<hits, queue>>
       ELSE /\ Finish(p, "raised")
            /\ UNCHANGED tindex
    /\ UNCHANGED <<markerIndexExists, markers, clock, autoId, envVars, ghostVars>>

\* es.indices.refresh(), then self.output().touch() is called.
run_refresh(p) ==
    /\ pc[p] = "run.refresh"
    /\ log' = [log EXCEPT ![p] = @ \o <<"refresh", "touch">>]
    /\ Continue(p, "create_marker_index")
    /\ UNCHANGED <<backendVars, hits, queue, envVars, ghostVars>>

\* A backend call of run() or touch() fails (connection, timeout, server
\* error): the exception propagates out of the operation.
backend_error(p) ==
    /\ pc[p] # "idle"
    /\ Call(p, "error")
    /\ Finish(p, "raised")
    /\ UNCHANGED <<backendVars, envVars, ghostVars>>

(* ---------------------------- specification --------------------------- *)

Next ==
    \E p \in Procs :
        \/ \E k \in TargetKeys : \E lookup \in {"answer", "error"} :
               exists(p, k, lookup)
        \/ \E t \in Targets : touch(p, t)
        \/ create_marker_index(p)
        \/ create_marker_index_create(p)
        \/ touch_index(p)
        \/ touch_flush(p)
        \/ ensure_hist_size_search(p)
        \/ ensure_hist_size_delete(p)
        \/ ensure_hist_size_flush(p)
        \/ \E k \in TargetKeys : run(p, k)
        \/ delete_index(p)
        \/ delete_index_delete(p)
        \/ create_index(p)
        \/ create_index_create(p)
        \/ run_put_mapping(p)
        \/ run_put_settings_off(p)
        \/ \E outcome \in {"ok", "doc_error"} : run_bulk(p, outcome)
        \/ run_put_settings_on(p)
        \/ run_refresh(p)
        \/ backend_error(p)

Spec == Init /\ [][Next]_vars

(* ------------------- touch() of fresh update ids ---------------------- *)

\* The classes whose marker_index_hist_size is positive.
HistTasks == {CopyToIndex(FALSE, None, TRUE, 2, <<>>, h) : h \in 1 .. MaxPruneHist}

\* The target of the next touch(): an update id not used before, on the
\* same index and doc_type.
FreshTarget ==
    ElasticsearchTarget(<<"a", "t", ToString(clock + 1)>>,
                        config.marker_index_hist_size)

InitHist ==
    /\ InitState
    /\ tindex = [i \in IndexNames |-> Absent]
    /\ active = {"p1"}
    /\ config \in HistTasks
    /\ horizon = MaxPruneClock
    /\ pureIn = <<>>
    /\ pureOut = <<>>

\* touch() after touch(), each of a fresh update id; no backend call fails.
NextHist ==
    \E p \in Procs :
        \/ touch(p, FreshTarget)
        \/ create_marker_index(p)
        \/ create_marker_index_create(p)
        \/ touch_index(p)
        \/ touch_flush(p)
        \/ ensure_hist_size_search(p)
        \/ ensure_hist_size_delete(p)
        \/ ensure_hist_size_flush(p)

SpecHist == InitHist /\ [][NextHist]_vars

(* --------------------------- marker ids alone ------------------------- *)

\* The strings of at most n characters, ':' among them.
IdChars == {"a", ":"}
RECURSIVE StringsUpTo(_)
StringsUpTo(n) ==
    IF n = 0 THEN {""}
    ELSE StringsUpTo(n - 1) \cup {s \o c : s \in StringsUpTo(n - 1), c \in IdChars}

IdStrings == StringsUpTo(MaxStrLen) \ {""}
IdKeys == IdStrings \X IdStrings \X IdStrings

InitId ==
    /\ InitState
    /\ tindex = [i \in IndexNames |-> Absent]
    /\ active = {"p1"}
    /\ config \in {CopyToIndex(FALSE, None, TRUE, 2, <<>>, 0)}
    /\ horizon = 0
    /\ pureIn \in IdKeys \X IdKeys
    /\ pureOut = <<>>

\* marker_index_document_id() of two targets.
call_marker_index_document_id ==
    /\ pureOut = <<>>
    /\ pureOut' = <<KeyId(pureIn[1]), KeyId(pureIn[2])>>
    /\ UNCHANGED <<backendVars, procVars, ghostVars, active, config, horizon, pureIn>>

NextId == call_marker_index_document_id

SpecId == InitId /\ [][NextId]_vars

(* ------------------------ normalisation alone ------------------------- *)

\* The documents a source yields: dicts and the texts of JSON objects, with
\* and without _index and _type; the text of a JSON array, a text that is
\* no JSON, and a value that is neither a dict nor a string.
DocUniverse ==
    {Dict([title |-> "x"]),
     Dict([_index |-> "b", title |-> "x"]),
     Dict([_index |-> "b", _type |-> "s", title |-> "x"]),
     Str("object", <<<<"title", "x">>>>),
     Str("object", <<<<"_type", "s">>, <<"title", "x">>>>),
     Str("object", <<<<"_index", "b">>, <<"_type", "s">>, <<"title", "x">>,
                     <<"title", "y">>>>),
     Str("array", <<>>),
     Str("invalid", <<>>),
     Other}

RECURSIVE SourcesUpTo(_)
SourcesUpTo(n) ==
    IF n = 0 THEN {<<>>}
    ELSE SourcesUpTo(n - 1)
             \cup {Append(s, d) : s \in SourcesUpTo(n - 1), d \in DocUniverse}

InitDocs ==
    /\ InitState
    /\ tindex = [i \in IndexNames |-> Absent]
    /\ active = {"p1"}
    /\ config \in {[CopyToIndex(FALSE, None, TRUE, 2, source, 0)
                          EXCEPT !.restartable = restartable]
                       : source \in SourcesUpTo(MaxDocs), restartable \in BOOLEAN}
    /\ horizon = 0
    /\ pureIn = <<>>
    /\ pureOut = <<>>

\* list(self._docs()) of a task with index 'a' and doc_type 't'.
call_docs ==
    /\ pureOut = <<>>
    /\ pureOut' = <<docs_normalized(config.source, config.restartable, "a", "t")>>
    /\ UNCHANGED <<backendVars, procVars, ghostVars, active, config, horizon, pureIn>>

NextDocs == call_docs

SpecDocs == InitDocs /\ [][NextDocs]_vars

(* ------------------------------ run() alone -------------------------- *)

\* A document without an _id: the backend generates one.
IdlessDoc(n) == Dict([title |-> n])

\* A source of n documents, all with an _id or all without.
Source(n, with_id) ==
    [i \in 1 .. n |-> IF with_id THEN SourceDoc(ToString(i))
                                 ELSE IdlessDoc(ToString(i))]

RunTasks ==
    {CopyToIndex(purge, mapping, TRUE, chunk_size, Source(n, with_id), 0) :
        purge \in BOOLEAN, mapping \in {None, "mapping"},
        chunk_size \in 1 .. MaxChunk, n \in 0 .. MaxSource, with_id \in BOOLEAN}

\* The keys of the runs: one update id for each of two doc_types.
RunKeys == {<<"a", "t", "1">>, <<"a", "t:u", "1">>}

\* A target index that exists before the first run, created with other
\* settings, with a document that a run overwrites and one it does not.
PriorDocs ==
    {[_id |-> "1", _type |-> "t", source |-> [title |-> "prior"]],
     [_id |-> "9", _type |-> "t", source |-> [title |-> "prior"]]}
Prior ==
    [exists |-> TRUE, settings |-> "prior", mapping |-> <<>>,
     refresh_interval |-> "default", docs |-> PriorDocs]

InitRun ==
    /\ InitState
    /\ tindex \in {[i \in IndexNames |-> Absent], [i \in IndexNames |-> Prior]}
    /\ active = {"p1"}
    /\ config \in RunTasks
    /\ horizon = MaxRunClock
    /\ pureIn = <<>>
    /\ pureOut = <<>>

\* run() as long as the backend has generated at most MaxSource ids.
run_again(p, k) == autoId <= MaxSource /\ run(p, k)

NextRun ==
    \E p \in Procs :
        \/ \E k \in RunKeys : run_again(p, k)
        \/ delete_index(p)
        \/ delete_index_delete(p)
        \/ create_index(p)
        \/ create_index_create(p)
        \/ run_put_mapping(p)
        \/ run_put_settings_off(p)
        \/ \E outcome \in {"ok", "doc_error"} : run_bulk(p, outcome)
        \/ run_put_settings_on(p)
        \/ run_refresh(p)
        \/ create_marker_index(p)
        \/ create_marker_index_create(p)
        \/ touch_index(p)
        \/ touch_flush(p)
        \/ backend_error(p)

SpecRun == InitRun /\ [][NextRun]_vars

(* ------------------------ two concurrent callers ---------------------- *)

\* The markers after touch() has been called, with marker_index_hist_size
\* 0, on each key of keys in turn, the first at time first.
RECURSIVE TouchAll(_, _, _)
TouchAll(store, keys, first) ==
    IF keys = <<>> THEN store
    ELSE TouchAll(es_index(store, MarkerDoc(ElasticsearchTarget(Head(keys), 0), first)),
                  Tail(keys), first + 1)

RECURSIVE KeySeqsUpTo(_)
KeySeqsUpTo(n) ==
    IF n = 0 THEN {<<>>}
    ELSE KeySeqsUpTo(n - 1)
             \cup {Append(s, k) : s \in KeySeqsUpTo(n - 1), k \in TargetKeys}

\* After at most MaxPrior earlier touch() calls, one after the other, two
\* processes call touch() once each, at the same time: their backend calls
\* interleave.  No call fails for a reason outside the module.
InitPair ==
    \E keys \in KeySeqsUpTo(MaxPrior) :
        /\ markerIndexExists = (keys # <<>>)
        /\ markers = TouchAll({}, keys, 1)
        /\ clock = Len(keys)
        /\ written = {keys[n] : n \in 1 .. Len(keys)}
        /\ pruned = {}
        /\ autoId = 0
        /\ InitIdle
        /\ tindex = [i \in IndexNames |-> Absent]
        /\ active = Procs
        /\ config \in {CopyToIndex(FALSE, None, TRUE, 2, <<>>, 0)}
        /\ horizon = MaxPrior + 1
        /\ pureIn = <<>>
        /\ pureOut = <<>>

\* touch() by a process that has not called it yet.
touch_once(p, t) == ret[p] = NoRet /\ touch(p, t)

NextPair ==
    \E p \in Procs :
        \/ \E t \in Targets : touch_once(p, t)
        \/ create_marker_index(p)
        \/ create_marker_index_create(p)
        \/ touch_index(p)
        \/ touch_flush(p)
        \/ ensure_hist_size_search(p)
        \/ ensure_hist_size_delete(p)
        \/ ensure_hist_size_flush(p)

SpecPair == InitPair /\ [][NextPair]_vars

(* ------------------------------- claims ------------------------------- *)

\* Whether the lookup of exists() finds the marker of key k.
Found(k) == markerIndexExists /\ es_get(markers, KeyId(k))

\* The marker documents that record key k.
MarkersOf(k) ==
    {m \in markers : m.target_index = k[1] /\ m.target_doc_type = k[2]
                     /\ m.update_id = k[3]}

Ids(S) == {m._id : m \in S}
InLog(l, name) == \E i \in 1 .. Len(l) : l[i] = name
Returned(p, ops) == ret[p].op \in ops /\ ret[p].outcome = "returned"

\* C1: for every key, exists() returns False as long as no touch() has
\* written the marker of that key, and True right after a touch() of that
\* key has returned (its pruning step included).
C1_ExistsFalseBeforeTouchTrueAfter ==
    \A p \in Procs :
        /\ (ret[p].op = "exists" /\ ret[p].lookup = "answer"
            /\ ret[p].key \notin written) => ret[p].value = FALSE
        /\ Returned(p, {"touch"}) => exists_result("answer", Found(ret[p].key))

\* The steps of run() before self.output().touch().
RunSteps ==
    {"delete_index", "delete_index.delete", "create_index", "create_index.create",
     "run.put_mapping", "run.put_settings_off", "run.bulk", "run.put_settings_on",
     "run.refresh"}

\* C2: a run() that ends at a step before the marker write ends with the
\* error propagating, has not called touch(), and exists() for its key
\* (never marked before) then returns False.
C2_FailedRunLeavesNoMarker ==
    \A p \in Procs :
        (ret[p].op = "run" /\ ret[p].at \in RunSteps) =>
            /\ ret[p].outcome = "raised"
            /\ ~InLog(log[p], "touch")
            /\ ret[p].key \notin written
                   => ~exists_result("answer", Found(ret[p].key))

\* C4: a touch() that returns leaves exactly one marker document for its
\* key, and a touch() whose key already has a marker overwrites that
\* document in place: only its date changes.
C4_TouchTwiceLeavesOneMarker ==
    [][\A p \in Procs :
          /\ (ret'[p].op \in {"touch", "run"} /\ ret'[p].outcome = "returned")
                 => Cardinality({m \in markers' : m.target_index = ret'[p].key[1]
                                      /\ m.target_doc_type = ret'[p].key[2]
                                      /\ m.update_id = ret'[p].key[3]}) = 1
          /\ (pc[p] = "touch.index" /\ pc'[p] = "touch.flush"
              /\ MarkersOf(Key(target[p])) # {})
                 => \E old \in MarkersOf(Key(target[p])) :
                        /\ old.date < clock'
                        /\ markers' = (markers \ {old})
                                          \cup {[old EXCEPT !.date = clock']}]_vars

\* A touch() has returned for a key whose marker it wrote for the second time.
C4_Witness ==
    \E p \in Procs :
        /\ Returned(p, {"touch"})
        /\ written = {ret[p].key}
        /\ clock = 2
        /\ Cardinality(MarkersOf(ret[p].key)) = 1

Bulks == {"bulk:" \o ToString(n) : n \in 1 .. 3}
Phase(e) ==
    CASE e = "run" -> 0
      [] e = "delete_index.exists" -> 1
      [] e = "delete_index.delete" -> 2
      [] e = "create_index.exists" -> 3
      [] e = "create_index.create" -> 4
      [] e = "put_mapping" -> 5
      [] e = "put_settings:-1" -> 6
      [] e \in Bulks -> 7
      [] e = "put_settings:1s" -> 8
      [] e = "refresh" -> 9
      [] e = "touch" -> 10
      [] e = "create_marker_index.exists" -> 11
      [] e = "create_marker_index.create" -> 12
      [] e = "index" -> 13
      [] e = "flush" -> 14
      [] e = "search" -> 15
      [] e = "delete" -> 16
      [] e = "ensure_hist_size.flush" -> 17
      [] OTHER -> -1
Phases(l) == {Phase(l[i]) : i \in 1 .. Len(l)}

\* C6: a run() that returns has issued its steps in the order (purge) ->
\* ensure index -> (mapping) -> disable refresh -> bulk requests -> restore
\* refresh -> one refresh -> touch(), each but the bulk requests and the
\* deletes of the pruning once; the refresh interval is restored, and
\* exactly one marker of the run's key exists, which exists() finds.
C6_RunOrder ==
    \A p \in Procs :
        Returned(p, {"run"}) =>
            LET l == log[p] IN
            /\ \A i, j \in 1 .. Len(l) :
                   i < j => /\ Phase(l[i]) >= 0
                            /\ Phase(l[i]) <= Phase(l[j])
                            /\ Phase(l[i]) = Phase(l[j]) => Phase(l[i]) \in {7, 16}
            /\ {0, 3, 6, 8, 9, 10, 11, 13, 14} \subseteq Phases(l)
            /\ (1 \in Phases(l)) <=> config.purge_existing_index
            /\ (5 \in Phases(l)) <=> (config.mapping # None)
            /\ tindex[ret[p].key[1]].refresh_interval = "1s"
            /\ Cardinality(MarkersOf(ret[p].key)) = 1
            /\ exists_result("answer", Found(ret[p].key))

\* A run() of three documents in chunks of two has returned.
C6_Witness ==
    \E p \in Procs :
        /\ Returned(p, {"run"})
        /\ InLog(log[p], "bulk:2") /\ InLog(log[p], "bulk:1")
        /\ InLog(log[p], "create_index.create")

\* C7: exists() always returns, never raises; it returns True only when its
\* lookup finds the marker document, and False when the lookup does not
\* find it and when the lookup fails.
C7_ExistsFalseOnError ==
    \A p \in Procs :
        ret[p].op = "exists" =>
            /\ ret[p].outcome = "returned"
            /\ ret[p].value = (ret[p].lookup = "answer" /\ Found(ret[p].key))

\* The lookup of exists() failed for a key whose marker is stored.
C7_Witness ==
    \E p \in Procs :
        /\ ret[p].op = "exists" /\ ret[p].lookup = "error"
        /\ Found(ret[p].key) /\ ret[p].value = FALSE

\* C8: a touch() with marker_index_hist_size = 0 deletes no marker: every
\* marker id stays, and it issues no search and no delete.
C8_NoPruningWithHistSizeZero ==
    [][\A p \in Procs :
          (pc[p] # "idle" /\ target[p].marker_index_hist_size = 0) =>
              /\ Ids(markers) \subseteq Ids(markers')
              /\ ~InLog(log'[p], "search")
              /\ ~InLog(log'[p], "delete")]_vars

\* A touch() with size 0 has returned, right after its flush, and the
\* marker it wrote is not the only one stored.
C8_Witness ==
    \E p \in Procs :
        /\ Returned(p, {"touch", "run"})
        /\ ret[p].at = "touch.flush"
        /\ ~InLog(log[p], "search")
        /\ Cardinality(markers) = 2
        /\ clock = 3

\* The markers that record target index i.
MarkersOfIndex(i) == {m \in markers : m.target_index = i}
Min(a, b) == IF a < b THEN a ELSE b
Max(a, b) == IF a > b THEN a ELSE b

\* C3: when the N-th touch() of a fresh update id returns, each made with
\* marker_index_hist_size = k > 0 on the same target index, the tracking
\* index holds exactly min(N, k) markers of that index: those of the k most
\* recent dates.
C3_PruningKeepsMostRecent ==
    \A p \in Procs :
        Returned(p, {"touch"}) =>
            LET k == config.marker_index_hist_size
                N == clock
                kept == MarkersOfIndex(ret[p].key[1])
            IN  /\ Cardinality(kept) = Min(N, k)
                /\ {m.date : m \in kept} = Max(1, N - k + 1) .. N

\* C9: two different (index, doc_type, update_id) triples have two
\* different marker document ids.
C9_DistinctKeysDistinctIds ==
    (pureOut # <<>> /\ pureIn[1] # pureIn[2]) => pureOut[1] # pureOut[2]

\* The documents _docs() is meant for: dicts and texts of JSON objects.
ValidDoc(d) == d.kind = "dict" \/ (d.kind = "str" /\ d.syntax = "object")
Parsed(d) == IF d.kind = "dict" THEN d.fields ELSE json_loads(d.members)

\* The document the claim expects for input d.
Expected(d, index, doc_type) ==
    LET f == Parsed(d)
    IN  Dict([n \in DOMAIN f \cup {"_index", "_type"} |->
                 IF n \in DOMAIN f THEN f[n]
                 ELSE IF n = "_index" THEN index ELSE doc_type])

OnePerInput(source, result) ==
    /\ result.err = None
    /\ Len(result.out) = Len(source)
    /\ \A i \in 1 .. Len(source) : result.out[i] = Expected(source[i], "a", "t")

\* C10 as stated: over a restartable source of dicts and JSON object
\* texts, _docs() yields one document per input, in order, with _index and
\* _type defaulted where the input lacks them and kept where it sets them,
\* and the other fields as they were.
C10_OnePerInputAnyMix ==
    (/\ pureOut # <<>>
     /\ config.restartable
     /\ \A i \in 1 .. Len(config.source) : ValidDoc(config.source[i]))
        => OnePerInput(config.source, pureOut[1])

\* C10, amended: the same over a restartable source whose documents are
\* all dicts or all JSON object texts.
C10_OnePerInputOneKind ==
    (/\ pureOut # <<>>
     /\ config.restartable
     /\ \A i \in 1 .. Len(config.source) : ValidDoc(config.source[i])
     /\ \A i, j \in 1 .. Len(config.source) :
            config.source[i].kind = config.source[j].kind)
        => OnePerInput(config.source, pureOut[1])

\* Two JSON object texts were normalised: one that sets _index and _type
\* and one that lacks _index.
C10_Witness ==
    /\ pureOut # <<>>
    /\ config.restartable
    /\ Len(config.source) = 2
    /\ \A i \in 1 .. 2 : (config.source[i].kind = "str" /\ ValidDoc(config.source[i]))
    /\ Contains(config.source[1], "_index") /\ ~Contains(config.source[2], "_index")
    /\ Len(pureOut[1].out) = 2
    /\ pureOut[1].out[1].fields._index = "b"
    /\ pureOut[1].out[2].fields._index = "a"

\* The hist_size most recent markers of target index i.
Window(i, hist_size) ==
    LET kept == Take(SortDateDesc(MarkersOfIndex(i)), hist_size)
    IN  {kept[n] : n \in 1 .. Len(kept)}

\* C12: the set of marker documents changes only when touch() indexes its
\* marker and when the pruning step deletes one marker, and the marker it
\* deletes is not among the marker_index_hist_size most recent markers of
\* its target index; no other step creates, modifies or deletes a marker.
C12_OnlyTouchWritesOnlyPruningDeletes ==
    [][markers' # markers =>
          \E p \in Procs :
              \/ /\ pc[p] = "touch.index"
                 /\ markers' = es_index(markers, MarkerDoc(target[p], clock'))
              \/ /\ pc[p] = "ensure_hist_size.delete"
                 /\ \E m \in markers :
                        /\ markers' = markers \ {m}
                        /\ m \notin Window(m.target_index,
                                            target[p].marker_index_hist_size)]_vars

\* Both processes have finished a touch() of the same key.
BothTouched(k) ==
    \A p \in Procs : pc[p] = "idle" /\ ret[p].op = "touch" /\ ret[p].key = k

\* C13: once two touch() calls of the same key have both finished, however
\* their backend calls interleaved, exactly one marker document records the
\* key and the lookup of exists() finds it.
C13_SameKeyTouchesConverge ==
    \A k \in TargetKeys :
        BothTouched(k) =>
            /\ Cardinality(MarkersOf(k)) = 1
            /\ exists_result("answer", Found(k))

\* Two touch() calls of the same key have finished, and each issued a
\* delete: the second searched before the first had pruned.
C13_Witness ==
    \E k \in TargetKeys :
        /\ BothTouched(k)
        /\ \A p \in Procs : InLog(log[p], "delete")

\* C16: the pruning run by touch() on a target deletes only markers that
\* record the target's own index and doc_type.
C16_PruningScopedToIndexAndDocType ==
    [][\A p \in Procs :
          pc[p] = "ensure_hist_size.delete" =>
              \A m \in markers \ markers' :
                  /\ m.target_index = target[p].index
                  /\ m.target_doc_type = target[p].doc_type]_vars

\* C20: no touch() ends with the index-already-exists error of the create
\* call of create_marker_index().
C20_CreateNeverFails ==
    \A p \in Procs :
        ~(/\ ret[p].op = "touch"
          /\ ret[p].outcome = "raised"
          /\ ret[p].at = "create_marker_index.create")

\* The sizes of the bulk requests in a log, in order.
BulkSize(e) == CHOOSE n \in 1 .. 3 : e = "bulk:" \o ToString(n)
IsBulk(e) == e \in Bulks
BulkSizes(l) ==
    LET b == SelectSeq(l, IsBulk)
    IN  [i \in 1 .. Len(b) |-> BulkSize(b[i])]

\* ceil(n / c) batches: c documents each, the last one the rest.
Ceil(n, c) == (n + c - 1) \div c
ExpectedBatches(n, c) ==
    [i \in 1 .. Ceil(n, c) |-> IF i < Ceil(n, c) THEN c ELSE n - c * (Ceil(n, c) - 1)]

\* The document the target index holds for the i-th document of a source,
\* loaded under doc_type, when it is the only load so far.
LoadedDoc(source, i, doc_type) ==
    [_id |-> IF "_id" \in DOMAIN source[i].fields THEN source[i].fields._id
             ELSE "auto" \o ToString(i - 1),
     _type |-> doc_type,
     source |-> [n \in DOMAIN source[i].fields \ MetaFields |-> source[i].fields[n]]]

LoadedDocs(source, doc_type) ==
    {LoadedDoc(source, i, doc_type) : i \in 1 .. Len(source)}

\* C14: a run() that returns has submitted ceil(n/c) bulk requests of sizes
\* c, ..., c, n - c*(ceil(n/c) - 1), and the target index holds every
\* document of the source; when it is the only load so far, the ids the
\* backend generated show each document submitted once, in source order.
C14_BatchesOfChunkSize ==
    \A p \in Procs :
        Returned(p, {"run"}) =>
            LET n == Len(config.source)
                docs == tindex[ret[p].key[1]].docs
            IN  /\ BulkSizes(log[p]) = ExpectedBatches(n, config.chunk_size)
                /\ \A i \in 1 .. n :
                       "_id" \in DOMAIN config.source[i].fields
                           => LoadedDoc(config.source, i, ret[p].key[2]) \in docs
                /\ autoId = Cardinality(NeedsId(config.source))
                       => LoadedDocs(config.source, ret[p].key[2]) \subseteq docs

\* A run() of three documents without ids in chunks of two has returned
\* after requests of two and one documents.
C14_Witness ==
    \E p \in Procs :
        /\ Returned(p, {"run"})
        /\ config.chunk_size = 2
        /\ Len(config.source) = 3
        /\ autoId = 3
        /\ BulkSizes(log[p]) = <<2, 1>>

\* The target index of the operation of p, and of its last operation.
IndexOf(p) == tindex[target[p].index]
LastIndexOf(p) == tindex[ret[p].key[1]]

SameDoc(d, e) == d._id = e._id /\ d._type = e._type

\* C15: with purge_existing_index, run() deletes the target index when it
\* exists and goes on without a delete call when it does not, and after a
\* run() that returns the index holds the documents of that run only;
\* without it, no step of run() deletes the index or issues a delete call,
\* and every document stays, or is replaced by one of the same id and type.
C15_PurgeGovernsPriorData ==
    [][\A p \in Procs :
          /\ (pc[p] = "idle" /\ pc'[p] # "idle")
                 => pc'[p] = IF config.purge_existing_index THEN "delete_index"
                             ELSE "create_index"
          /\ (pc[p] = "delete_index" /\ pc'[p] # "idle")
                 => pc'[p] = IF IndexOf(p).exists THEN "delete_index.delete"
                             ELSE "create_index"
          /\ (pc[p] = "delete_index.delete" /\ pc'[p] # "idle")
                 => tindex'[target[p].index] = Absent
          /\ (ret'[p].op = "run" /\ ret'[p].outcome = "returned"
              /\ config.purge_existing_index)
                 => /\ tindex'[ret'[p].key[1]].docs \cap PriorDocs = {}
                    /\ \A d \in tindex'[ret'[p].key[1]].docs : d._type = ret'[p].key[2]
                    /\ Cardinality(tindex'[ret'[p].key[1]].docs) = Len(config.source)
          /\ (pc[p] # "idle" /\ ~config.purge_existing_index)
                 => /\ ~InLog(log'[p], "delete_index.exists")
                    /\ ~InLog(log'[p], "delete_index.delete")
                    /\ IndexOf(p).exists => tindex'[target[p].index].exists
                    /\ \A d \in IndexOf(p).docs :
                           \/ d \in tindex'[target[p].index].docs
                           \/ \E e \in tindex'[target[p].index].docs :
                                  /\ SameDoc(d, e)
                                  /\ e \in LoadedDocs(config.source, target[p].doc_type)
         ]_vars

\* A run() with purge_existing_index has returned on a target index that
\* existed with documents before: it deleted the index and created it anew.
C15_Witness ==
    \E p \in Procs :
        /\ Returned(p, {"run"})
        /\ config.purge_existing_index
        /\ InLog(log[p], "delete_index.delete")
        /\ LastIndexOf(p).settings = "settings"
        /\ LastIndexOf(p).docs # {}
        /\ clock = 1

\* C17: create_index() issues the create call, with the configured
\* settings, only when it has found the target index absent; the settings
\* of an index that exists never change, a run() without
\* purge_existing_index on such an index issues no create call, and a
\* run() that returns has applied the configured mapping, if there is one.
C17_SettingsOnlyAtCreation ==
    [][\A p \in Procs :
          /\ (pc[p] = "create_index" /\ pc'[p] # "idle")
                 => pc'[p] = IF IndexOf(p).exists THEN AfterCreateIndex(p)
                             ELSE "create_index.create"
          /\ (pc[p] = "create_index.create" /\ pc'[p] # "idle")
                 => /\ ~IndexOf(p).exists
                    /\ tindex'[target[p].index].exists
                    /\ tindex'[target[p].index].settings = config.settings
          /\ \A i \in IndexNames :
                 (tindex[i].exists /\ tindex'[i].exists)
                     => tindex'[i].settings = tindex[i].settings
          /\ (pc[p] # "idle" /\ ~config.purge_existing_index
              /\ IndexOf(p).exists /\ IndexOf(p).settings = Prior.settings)
                 => ~InLog(log'[p], "create_index.create")
          /\ (ret'[p].op = "run" /\ ret'[p].outcome = "returned")
                 => /\ InLog(log'[p], "put_mapping") <=> (config.mapping # None)
                    /\ config.mapping # None
                           => tindex'[ret'[p].key[1]].mapping
                                  = <<ret'[p].key[2], config.mapping>>
         ]_vars

\* The second run() on a target index that existed before with other
\* settings has returned: the settings are the old ones, the mapping is
\* the configured one.
C17_Witness ==
    \E p \in Procs :
        /\ Returned(p, {"run"})
        /\ ~config.purge_existing_index
        /\ LastIndexOf(p).settings = Prior.settings
        /\ LastIndexOf(p).mapping = <<ret[p].key[2], "mapping">>
        /\ clock = 2

\* A run() without purge_existing_index has returned after the only marker
\* write so far, on a tracking index that an earlier run() created: that
\* run() had loaded its documents and failed before it indexed its marker.
RetriedAfterMarkerFailure(p) ==
    /\ Returned(p, {"run"})
    /\ ~config.purge_existing_index
    /\ config.raise_on_error
    /\ clock = 1
    /\ ~InLog(log[p], "create_marker_index.create")

\* The documents of the doc_type of the last run() of p that were not in
\* the target index before the first run.
OwnDocs(p) == {d \in LastIndexOf(p).docs \ PriorDocs : d._type = ret[p].key[2]}

\* What a single run() leaves: one document for each one of the source,
\* with its fields and, if it has one, its id.
SingleRunDocs(p) ==
    /\ Cardinality(OwnDocs(p)) = Len(config.source)
    /\ \A i \in 1 .. Len(config.source) :
           \E d \in OwnDocs(p) :
               LET f == config.source[i].fields
               IN  /\ d.source = [n \in DOMAIN f \ MetaFields |-> f[n]]
                   /\ "_id" \in DOMAIN f => d._id = f._id

AllHaveIds(source) == NeedsId(source) = {}

\* C11 as stated: after the retry of a run() whose marker write failed,
\* with the same source and no purge, the target index holds the documents
\* of a single run, and the marker is written.
C11_RetryLeavesSingleRunDocs ==
    \A p \in Procs :
        RetriedAfterMarkerFailure(p) =>
            /\ SingleRunDocs(p)
            /\ exists_result("answer", Found(ret[p].key))

\* C11, amended: the same when every document of the source has an _id.
C11_RetryLeavesSingleRunDocsWithIds ==
    \A p \in Procs :
        (RetriedAfterMarkerFailure(p) /\ AllHaveIds(config.source)) =>
            /\ SingleRunDocs(p)
            /\ exists_result("answer", Found(ret[p].key))

\* The retry of a run() of three documents with ids has returned, on a
\* target index that holds nothing but what the two runs loaded.
C11_Witness ==
    \E p \in Procs :
        /\ RetriedAfterMarkerFailure(p)
        /\ AllHaveIds(config.source)
        /\ Len(config.source) = 3
        /\ LastIndexOf(p).docs = OwnDocs(p)
        /\ ~InLog(log[p], "create_index.create")

Last(l) == l[Len(l)]

\* The last run() of p ended in its bulk load, after put_settings had
\* disabled the refresh.
BulkLoadRaised(p) ==
    /\ ret[p].op = "run" /\ ret[p].outcome = "raised"
    /\ ret[p].at \in {"run.put_settings_off", "run.bulk"}
    /\ InLog(log[p], "put_settings:-1")
    /\ Last(log[p]) # "error" \/ ret[p].at = "run.bulk"

\* C18: after every run() that returns the refresh interval of the target
\* index is "1s"; after a run() whose bulk load raised, no call follows the
\* bulk load, the interval is "-1" and that run() has written no marker;
\* and the interval becomes "1s" only by step 6 of a run().
C18_RefreshRestoredOnlyOnSuccess ==
    [][/\ \A p \in Procs :
            /\ Returned(p, {"run"})' =>
                   tindex'[ret'[p].key[1]].refresh_interval = "1s"
            /\ BulkLoadRaised(p)' =>
                   /\ tindex'[ret'[p].key[1]].refresh_interval = "-1"
                   /\ ~InLog(log'[p], "put_settings:1s")
                   /\ ~InLog(log'[p], "refresh")
                   /\ ~InLog(log'[p], "index")
                   /\ \/ Last(log'[p]) \in {"put_settings:-1", "error"}
                      \/ IsBulk(Last(log'[p]))
                   /\ \A i \in 1 .. Len(log'[p]) - 1 : log'[p][i] # "error"
       /\ \A i \in IndexNames :
            (tindex[i].refresh_interval # "1s" /\ tindex'[i].refresh_interval = "1s")
                => \E p \in Procs : pc[p] = "run.put_settings_on"
                                     /\ target[p].index = i
                                     /\ pc'[p] = "run.refresh"]_vars

\* The second bulk request of a run() has rejected a document: the first
\* chunk is loaded, and the refresh of the index is disabled.
C18_Witness ==
    \E p \in Procs :
        /\ BulkLoadRaised(p)
        /\ BulkSizes(log[p]) = <<1, 1>>
        /\ IsBulk(Last(log[p]))
        /\ LastIndexOf(p).refresh_interval = "-1"
        /\ LastIndexOf(p).docs # {}
        /\ ~Found(ret[p].key)

\* C19: a run() on an empty source issues no bulk request and leaves the
\* documents of the target index alone; it raises only where a backend call
\* fails; when it returns it has restored the refresh interval, refreshed
\* and called touch(), and exists() of its key is True.
C19_EmptySourceStillMarks ==
    \A p \in Procs :
        config.source = <<>> =>
            /\ pc[p] # "run.bulk"
            /\ \A i \in 1 .. Len(log[p]) : ~IsBulk(log[p][i])
            /\ \A i \in IndexNames : tindex[i].docs \subseteq PriorDocs
            /\ (ret[p].op = "run" /\ ret[p].outcome = "raised") =>
                   Last(log[p]) = "error"
            /\ Returned(p, {"run"}) =>
                   /\ InLog(log[p], "put_settings:1s")
                   /\ InLog(log[p], "refresh")
                   /\ InLog(log[p], "touch")
                   /\ InLog(log[p], "index")
                   /\ LastIndexOf(p).refresh_interval = "1s"
                   /\ exists_result("answer", Found(ret[p].key))

\* A run() on an empty source has returned on an index it created: the
\* index is empty and the marker is there.
C19_Witness ==
    \E p \in Procs :
        /\ config.source = <<>>
        /\ Returned(p, {"run"})
        /\ InLog(log[p], "create_index.create")
        /\ LastIndexOf(p).docs = {}
        /\ Found(ret[p].key)

====
